---- MODULE Spec2Model ----
(***************************************************************************)
(* Model of mock-c-lightning: the MockDaemon of src/mock-c-lightning.py,   *)
(* its DaemonState document, the state file and the virtual clock.         *)
(*                                                                         *)
(* An invoice is a record (a Python dict).  An unpaid or expired invoice   *)
(* has the keys label, msatoshi, status, expires_at, expiry_time; _set_paid *)
(* adds paid_at, paid_timestamp, msatoshi_recieved and pay_index.  The     *)
(* keys bolt11 and payment_hash are written once by _new_invoice from the  *)
(* arguments and read by no operation other than the return value of       *)
(* invoice; they are left out of the records.                              *)
(*                                                                         *)
(* A Python None is the empty sequence <<>>, and a timestamp t that may be *)
(* None is <<t>>.                                                          *)
(*                                                                         *)
(* Spec and SpecMem are one daemon in persistent and in in-memory mode.    *)
(* SpecHist and SpecAdvance are the same commands with the last call       *)
(* recorded, SpecAdvance with advancetime in both directions.  SpecRace is *)
(* two runs of the command-line program on one state file, and SpecFacade  *)
(* the three facade classes of src/daemon.py in front of the daemon.       *)
(***************************************************************************)
EXTENDS Integers, Sequences, FiniteSets, TLC

\* ---- bounds of the model -------------------------------------------------
MaxTime == 1
MaxInvoices == 2
MaxPayIndex == 2

\* ---- inputs ---------------------------------------------------------------
\* The arguments the commands are called with.  An expiry of 0 makes an
\* invoice overdue one second after its creation; advancetime is called with
\* positive seconds in Next and with seconds of either sign in NextAdvance.
Labels == {"a", "b"}
Msatoshis == {10000}
Expiries == {0}
AdvanceSeconds == {1}
CycleSeconds == {0, 1}
ExpiredBys == {0}
Statuses == {"paid", "unpaid", "expired"}

VARIABLES
    in_memory,   \* DaemonState.in_memory: TRUE for MockDaemon(True)
    clock,       \* int(time.time()), the real clock
    mem,         \* the DaemonState dict of the daemon object that ran last
    file,        \* STATE_FILE: <<>> when it does not exist, else <<document>>
    result,      \* how the last operation ended: return value or exception
    max_issued,  \* history: the largest pay_index assigned since the last reset
    last_pass,   \* history: virtual time of the last autoclean pass or stamp
    last_call,   \* history: the command that ran last, where it is recorded
    procs,       \* the command-line processes that run at the same time
    backend,     \* the facade class of daemon.py in use, "" for none
    facade       \* what the last call of a facade method returned or raised

vars == <<in_memory, clock, mem, file, result, max_issued, last_pass,
          last_call, procs, backend, facade>>

\* What the commands of the one daemon leave alone.
others == <<procs, backend, facade>>

None == <<>>

\* ---- DaemonState ----------------------------------------------------------
empty_state ==
    [time_offset             |-> 0,
     autoclean_cycle_seconds |-> 0,
     autoclean_last_clean    |-> None,
     autoclean_expired_by    |-> 86400,
     invoices                |-> <<>>]

\* A variant of read_state that never looks at the file.
read_state_Empty(f) == empty_state

\* json.loads of the file's content, or the empty state without a file.  Every
\* value of the document is an int, a str, None, a list or a dict with str
\* keys, which json.dumps/json.loads give back unchanged.
read_state(f) == IF f = <<>> THEN empty_state ELSE f[1]

\* The file after state.write_state() of document st.
write_state(st) == IF in_memory THEN file ELSE <<st>>

\* The DaemonState an operation starts from: the daemon object's dict in
\* in-memory mode, and what DaemonState(False) reads at the start of the
\* process in persistent mode (one process per command).
StartState == IF in_memory THEN mem ELSE read_state(file)

get_time(st) == clock + st.time_offset

LabelsOf(invs) == {invs[k].label : k \in DOMAIN invs}

\* How an operation ends: it returns None ("return" with no error), returns a
\* value that is not an error object ("value"), returns an error object
\* {"code": -1, "message": m}, or leaves by an exception.  The returned value
\* itself is a function of the state the operation leaves (see each action).
ReturnedNone == [outcome |-> "return", error |-> ""]
ReturnedValue == [outcome |-> "value", error |-> ""]
ReturnedError(message) == [outcome |-> "return", error |-> message]
Raised(e) == [outcome |-> e, error |-> ""]

\* ---- invoice --------------------------------------------------------------
new_invoice(st, label, msatoshi, expiry) ==
    LET now == get_time(st)
    IN [label       |-> label,
        msatoshi    |-> msatoshi,
        status      |-> "unpaid",
        expires_at  |-> now + expiry,
        expiry_time |-> now + expiry]

\* A variant of the duplicate test that never finds the label.
LabelTaken_Never(st, label) == FALSE

\* Lines 110-111: the label is among the labels of the stored invoices.
LabelTaken(st, label) == label \in LabelsOf(st.invoices)

\* A variant of invoice that tests the label only after it has appended and
\* written the new invoice.
invoice_ExitAfterAppend(label, msatoshi, expiry) ==
    LET st == StartState
        i == new_invoice(st, label, msatoshi, expiry)
        st2 == [st EXCEPT !.invoices = Append(@, i)]
    IN /\ Len(st.invoices) < MaxInvoices
       /\ mem' = st2
       /\ file' = write_state(st2)
       /\ result' = IF label \in LabelsOf(st.invoices)
                    THEN Raised("SystemExit") ELSE ReturnedValue
       /\ UNCHANGED <<in_memory, clock, max_issued, last_pass>>

invoice(label, msatoshi, expiry) ==
    LET st == StartState
    IN IF LabelTaken(st, label)
       THEN \* sys.exit("*** label already in set?")
            /\ result' = Raised("SystemExit")
            /\ UNCHANGED <<in_memory, clock, max_issued, last_pass>>
            /\ mem' = st
            /\ file' = file
       ELSE LET i == new_invoice(st, label, msatoshi, expiry)
                st2 == [st EXCEPT !.invoices = Append(@, i)]
            IN /\ Len(st.invoices) < MaxInvoices
               /\ result' = ReturnedValue
               /\ UNCHANGED <<in_memory, clock, max_issued, last_pass>>
               /\ mem' = st2
               /\ file' = write_state(st2)

\* ---- listinvoices and autoclean --------------------------------------------
\* Lines 149-153: every unpaid invoice with timestamp > expires_at is flipped
\* to expired, in place.
expire_unpaid(invs, timestamp) ==
    [k \in DOMAIN invs |->
        IF invs[k].status = "unpaid" /\ timestamp > invs[k].expires_at
        THEN [invs[k] EXCEPT !.status = "expired"]
        ELSE invs[k]]

\* list(self._iter_remaining(now)): what the generator yields before it ends,
\* and whether it ends by raising.  For the first invoice the generator yields
\* it when it is not expired (line 128), computes expired_for (line 129) and
\* then evaluates the name `state` (line 130), which is bound neither in the
\* function nor in the module nor in builtins: NameError.  With no invoice the
\* loop body never runs.
iter_remaining(invs, now) ==
    IF invs = <<>>
    THEN [items |-> <<>>, raised |-> FALSE]
    ELSE [items  |-> IF Head(invs).status # "expired"
                     THEN <<Head(invs)>> ELSE <<>>,
          raised |-> TRUE]

\* Whether _autoclean gets past its two early returns (lines 134-138).
PassDue(st, now) ==
    /\ st.autoclean_cycle_seconds # 0
    /\ st.autoclean_last_clean # None
    /\ ~(now - st.autoclean_last_clean[1] < st.autoclean_cycle_seconds)

\* _autoclean: the state it leaves, the exception it raises ("" for none)
\* and whether a pass was started.  The loop of lines 140-142 has no effect.
autoclean(st, now) ==
    IF st.autoclean_cycle_seconds = 0
    THEN [state |-> st, raised |-> "", pass |-> FALSE]
    ELSE IF st.autoclean_last_clean = None
    THEN \* now - None
         [state |-> st, raised |-> "TypeError", pass |-> FALSE]
    ELSE IF ~PassDue(st, now)
    THEN [state |-> st, raised |-> "", pass |-> FALSE]
    ELSE LET r == iter_remaining(st.invoices, now)
         IN IF r.raised
            THEN [state |-> st, raised |-> "NameError", pass |-> TRUE]
            ELSE [state  |-> [st EXCEPT !.invoices = r.items,
                                        !.autoclean_last_clean = <<now>>],
                  raised |-> "", pass |-> TRUE]

listinvoices ==
    LET st == StartState
        timestamp == get_time(st)
        st1 == [st EXCEPT !.invoices = expire_unpaid(@, timestamp)]
        ac == autoclean(st1, timestamp)
    IN /\ mem' = ac.state
       /\ IF ac.raised # ""
          THEN \* the exception leaves listinvoices before write_state
               /\ file' = file
               /\ result' = Raised(ac.raised)
          ELSE /\ file' = write_state(ac.state)
               /\ result' = ReturnedValue
       /\ last_pass' = IF ac.pass THEN <<timestamp>> ELSE last_pass
       /\ UNCHANGED <<in_memory, clock, max_issued>>

\* ---- autocleaninvoice -----------------------------------------------------
\* A variant of autocleaninvoice without line 163: the cycle and the retention
\* window are stored, autoclean_last_clean keeps its value.
autocleaninvoice_NoStamp(cycle_seconds, expired_by) ==
    LET st == StartState
        timestamp == get_time(st)
        st2 == [st EXCEPT !.autoclean_cycle_seconds = cycle_seconds,
                          !.autoclean_expired_by = expired_by]
    IN /\ mem' = st2
       /\ file' = write_state(st2)
       /\ result' = ReturnedNone
       /\ last_pass' = <<timestamp>>
       /\ UNCHANGED <<in_memory, clock, max_issued>>

autocleaninvoice(cycle_seconds, expired_by) ==
    LET st == StartState
        timestamp == get_time(st)
        st2 == [st EXCEPT !.autoclean_cycle_seconds = cycle_seconds,
                          !.autoclean_last_clean = <<timestamp>>,
                          !.autoclean_expired_by = expired_by]
    IN /\ mem' = st2
       /\ file' = write_state(st2)
       /\ result' = ReturnedNone
       /\ last_pass' = <<timestamp>>
       /\ UNCHANGED <<in_memory, clock, max_issued>>

\* ---- delinvoice -----------------------------------------------------------
\* The first invoice with the label (lines 172-175), None when there is none.
find_invoice(invs, label) ==
    IF label \in LabelsOf(invs)
    THEN <<invs[CHOOSE k \in DOMAIN invs :
                    /\ invs[k].label = label
                    /\ \A j \in DOMAIN invs : invs[j].label = label => k <= j]>>
    ELSE None

\* A variant of delinvoice without the status test of lines 178-179.
delinvoice_AnyStatus(label, status) ==
    LET st == StartState
        found == find_invoice(st.invoices, label)
    IN IF found = None
       THEN /\ result' = ReturnedError("Unknown invoice")
            /\ UNCHANGED <<in_memory, clock, max_issued, last_pass>>
            /\ mem' = st
            /\ file' = file
       ELSE LET st2 == [st EXCEPT !.invoices =
                            SelectSeq(@, LAMBDA i : i.label # label)]
            IN /\ result' = ReturnedNone
               /\ UNCHANGED <<in_memory, clock, max_issued, last_pass>>
               /\ mem' = st2
               /\ file' = write_state(st2)

delinvoice(label, status) ==
    LET st == StartState
        found == find_invoice(st.invoices, label)
    IN IF found = None
       THEN /\ result' = ReturnedError("Unknown invoice")
            /\ UNCHANGED <<in_memory, clock, max_issued, last_pass>>
            /\ mem' = st
            /\ file' = file
       ELSE IF found[1].status # status
       THEN /\ result' = ReturnedError("Wrong status")
            /\ UNCHANGED <<in_memory, clock, max_issued, last_pass>>
            /\ mem' = st
            /\ file' = file
       ELSE LET st2 == [st EXCEPT !.invoices =
                            SelectSeq(@, LAMBDA i : i.label # label)]
            IN /\ result' = ReturnedNone
               /\ UNCHANGED <<in_memory, clock, max_issued, last_pass>>
               /\ mem' = st2
               /\ file' = write_state(st2)

\* ---- markpaid -------------------------------------------------------------
MaxOf(S) == CHOOSE x \in S : \A y \in S : y <= x

\* A variant of _get_next_pay_index that counts the paid invoices instead of
\* taking their largest pay_index.
get_next_pay_index_Count(st) ==
    Cardinality({j \in DOMAIN st.invoices :
                    st.invoices[j].status = "paid"}) + 1

get_next_pay_index(st) ==
    LET i_list == {st.invoices[k].pay_index :
                      k \in {j \in DOMAIN st.invoices :
                                st.invoices[j].status = "paid"}}
        current_max == IF i_list # {} THEN MaxOf(i_list) ELSE 0
    IN current_max + 1

\* _set_paid reads the clock twice (lines 196 and 197): paid_at is read at
\* real time clock, paid_timestamp at real time clock + d.
set_paid(st, i, d) ==
    [label             |-> i.label,
     msatoshi          |-> i.msatoshi,
     expires_at        |-> i.expires_at,
     expiry_time       |-> i.expiry_time,
     status            |-> "paid",
     paid_at           |-> get_time(st),
     paid_timestamp    |-> get_time(st) + d,
     msatoshi_recieved |-> i.msatoshi + 33,
     pay_index         |-> get_next_pay_index(st)]

markpaid(label) ==
    LET st == StartState
        found == find_invoice(st.invoices, label)
    IN IF found = None
       THEN /\ result' = ReturnedError("unknown invoice")
            /\ UNCHANGED <<in_memory, clock, max_issued, last_pass>>
            /\ mem' = st
            /\ file' = file
       ELSE \E d \in 0..1 :
            LET paid == set_paid(st, found[1], d)
                st2 == [st EXCEPT !.invoices =
                            [k \in DOMAIN @ |->
                                IF @[k].label = label THEN paid ELSE @[k]]]
            IN /\ paid.pay_index <= MaxPayIndex
               /\ get_time(st) + d <= MaxTime
               /\ clock' = clock + d
               /\ mem' = st2
               /\ file' = write_state(st2)
               /\ result' = ReturnedNone
               /\ max_issued' = IF paid.pay_index > max_issued
                                 THEN paid.pay_index ELSE max_issued
               /\ UNCHANGED <<in_memory, last_pass>>

\* ---- advancetime ----------------------------------------------------------
\* A variant of advancetime that never moves the clock back: negative seconds
\* count as 0.
advancetime_ForwardOnly(seconds) ==
    LET st == StartState
        st2 == [st EXCEPT !.time_offset =
                              @ + (IF seconds < 0 THEN 0 ELSE seconds)]
    IN /\ clock + st2.time_offset \in 0..MaxTime
       /\ result' = ReturnedNone
       /\ UNCHANGED <<in_memory, clock, max_issued, last_pass>>
       /\ mem' = st2
       /\ file' = write_state(st2)

\* A variant of advancetime that subtracts the seconds.
advancetime_Backward(seconds) ==
    LET st == StartState
        st2 == [st EXCEPT !.time_offset = @ - seconds]
    IN /\ clock + st2.time_offset \in 0..MaxTime
       /\ result' = ReturnedNone
       /\ UNCHANGED <<in_memory, clock, max_issued, last_pass>>
       /\ mem' = st2
       /\ file' = write_state(st2)

advancetime(seconds) ==
    LET st == StartState
        st2 == [st EXCEPT !.time_offset = @ + seconds]
    IN /\ clock + st2.time_offset \in 0..MaxTime
       /\ result' = ReturnedNone
       /\ UNCHANGED <<in_memory, clock, max_issued, last_pass>>
       /\ mem' = st2
       /\ file' = write_state(st2)

\* ---- reset ----------------------------------------------------------------
\* A variant of reset that empties the invoices and keeps the other keys.
reset_InvoicesOnly ==
    LET st2 == [StartState EXCEPT !.invoices = <<>>]
    IN /\ mem' = st2
       /\ file' = write_state(st2)
       /\ result' = ReturnedNone
       /\ max_issued' = 0
       /\ last_pass' = None
       /\ UNCHANGED <<in_memory, clock>>

\* DaemonState.reset: self.update(empty_state()) overwrites all five keys.
reset ==
    LET st2 == empty_state
    IN /\ mem' = st2
       /\ file' = write_state(st2)
       /\ result' = ReturnedNone
       /\ max_issued' = 0
       /\ last_pass' = None
       /\ UNCHANGED <<in_memory, clock>>

\* ---- the real clock -------------------------------------------------------
Tick ==
    /\ get_time(StartState) < MaxTime
    /\ clock' = clock + 1
    /\ UNCHANGED <<in_memory, mem, file, result, max_issued, last_pass>>

\* The command-line program: __main__ builds MockDaemon(False) for every
\* command, and no state file exists before the first one.
Init ==
    /\ in_memory = FALSE
    /\ clock = 0
    /\ mem = empty_state
    /\ file = <<>>
    /\ result = ReturnedNone
    /\ max_issued = 0
    /\ last_pass = None
    /\ last_call = None
    /\ procs = <<>>
    /\ backend = ""
    /\ facade = None

\* One MockDaemon(True) object that serves every command in its process.
InitMem ==
    /\ in_memory = TRUE
    /\ clock = 0
    /\ mem = empty_state
    /\ file = <<>>
    /\ result = ReturnedNone
    /\ max_issued = 0
    /\ last_pass = None
    /\ last_call = None
    /\ procs = <<>>
    /\ backend = ""
    /\ facade = None

\* The commands and the clock; the history of calls is not recorded.
Next ==
    \/ /\ \E l \in Labels, m \in Msatoshis, e \in Expiries : invoice(l, m, e)
       /\ UNCHANGED <<last_call, others>>
    \/ /\ listinvoices
       /\ UNCHANGED <<last_call, others>>
    \/ /\ \E c \in CycleSeconds, x \in ExpiredBys : autocleaninvoice(c, x)
       /\ UNCHANGED <<last_call, others>>
    \/ /\ \E l \in Labels, s \in Statuses : delinvoice(l, s)
       /\ UNCHANGED <<last_call, others>>
    \/ /\ \E l \in Labels : markpaid(l)
       /\ UNCHANGED <<last_call, others>>
    \/ /\ \E s \in AdvanceSeconds : advancetime(s)
       /\ UNCHANGED <<last_call, others>>
    \/ /\ reset
       /\ UNCHANGED <<last_call, others>>
    \/ /\ Tick
       /\ UNCHANGED <<last_call, others>>

Spec == Init /\ [][Next]_vars

SpecMem == InitMem /\ [][Next]_vars

\* ---- the commands with their history ---------------------------------------
\* The record of a markpaid, advancetime or reset command (run_cmd, lines
\* 237-304): its name, its label and seconds arguments ("" and 0 where it has
\* none), and of the DaemonState it started from: the time_offset, the status
\* of the invoice with the label ("" without one) and whether the state was
\* the empty baseline.  For an advancetime call that follows an advancetime
\* call directly, previous holds the seconds of that call.
Call(cmd, label, seconds) ==
    <<[cmd         |-> cmd,
       label       |-> label,
       seconds     |-> seconds,
       time_offset |-> StartState.time_offset,
       status      |-> IF label \in LabelsOf(StartState.invoices)
                       THEN find_invoice(StartState.invoices, label)[1].status
                       ELSE "",
       baseline    |-> StartState = empty_state,
       previous    |-> IF /\ cmd = "advancetime"
                          /\ last_call # None
                          /\ last_call[1].cmd = "advancetime"
                       THEN <<last_call[1].seconds>>
                       ELSE None]>>

\* A daemon of either mode: the command-line program or one MockDaemon(True).
InitEither ==
    /\ in_memory \in BOOLEAN
    /\ clock = 0
    /\ mem = empty_state
    /\ file = <<>>
    /\ result = ReturnedNone
    /\ max_issued = 0
    /\ last_pass = None
    /\ last_call = None
    /\ procs = <<>>
    /\ backend = ""
    /\ facade = None

\* The commands of Next, with the markpaid calls recorded.
NextHist ==
    \/ \E l \in Labels, m \in Msatoshis, e \in Expiries :
          /\ invoice(l, m, e)
          /\ UNCHANGED others
          /\ last_call' = None
    \/ /\ listinvoices
       /\ UNCHANGED others
       /\ last_call' = None
    \/ \E c \in CycleSeconds, x \in ExpiredBys :
          /\ autocleaninvoice(c, x)
          /\ UNCHANGED others
          /\ last_call' = None
    \/ \E l \in Labels, s \in Statuses :
          /\ delinvoice(l, s)
          /\ UNCHANGED others
          /\ last_call' = None
    \/ \E l \in Labels :
          /\ markpaid(l)
          /\ UNCHANGED others
          /\ last_call' = Call("markpaid", l, 0)
    \/ \E s \in AdvanceSeconds :
          /\ advancetime(s)
          /\ UNCHANGED others
          /\ last_call' = None
    \/ /\ reset
       /\ UNCHANGED others
       /\ last_call' = None
    \/ /\ Tick
       /\ UNCHANGED <<last_call, others>>

SpecHist == Init /\ [][NextHist]_vars

\* The seconds advancetime is called with: type=int (line 293), of either
\* sign.
AdvanceBoth == (0 - MaxTime)..MaxTime

\* The label of the one invoice of the advancetime scenarios.
OneLabel == {"a"}

\* The commands with advancetime in both directions, the advancetime and
\* reset calls recorded.  The real clock stops at MaxTime, as the virtual
\* clock does in Next.
NextAdvance ==
    \/ \E l \in OneLabel, m \in Msatoshis, e \in Expiries :
          /\ invoice(l, m, e)
          /\ UNCHANGED others
          /\ last_call' = None
    \/ /\ listinvoices
       /\ UNCHANGED others
       /\ last_call' = None
    \/ \E c \in CycleSeconds, x \in ExpiredBys :
          /\ autocleaninvoice(c, x)
          /\ UNCHANGED others
          /\ last_call' = None
    \/ \E l \in OneLabel, s \in Statuses :
          /\ delinvoice(l, s)
          /\ UNCHANGED others
          /\ last_call' = None
    \/ \E l \in OneLabel :
          /\ markpaid(l)
          /\ clock' <= MaxTime
          /\ UNCHANGED others
          /\ last_call' = None
    \/ \E s \in AdvanceBoth :
          /\ advancetime(s)
          /\ UNCHANGED others
          /\ last_call' = Call("advancetime", "", s)
    \/ /\ reset
       /\ UNCHANGED others
       /\ last_call' = Call("reset", "", 0)
    \/ /\ Tick
       /\ clock' <= MaxTime
       /\ UNCHANGED <<last_call, others>>

SpecAdvance == InitEither /\ [][NextAdvance]_vars

\* ---- two command-line processes on one state file --------------------------
\* Each process is one run of the program (lines 309-315): MockDaemon(False)
\* reads the whole state file when it is built, run_cmd runs the invoice
\* command on that copy and writes the whole copy back, then the process
\* ends.  Nothing locks the file, so the steps of two processes interleave.
RaceProcs == {1, 2}

Idle == [pc |-> "idle"]

\* Line 310: the process is started with its arguments, and DaemonState(False)
\* reads the state file.  raced marks the processes that ran while another
\* process was between its read and its write.
proc_start(p, label, msatoshi, expiry) ==
    /\ procs[p].pc = "idle"
    /\ procs' =
          [q \in RaceProcs |->
              IF q = p
              THEN [pc       |-> "started",
                    label    |-> label,
                    msatoshi |-> msatoshi,
                    expiry   |-> expiry,
                    st       |-> read_state(file),
                    outcome  |-> "",
                    raced    |-> \E r \in RaceProcs : procs[r].pc = "started"]
              ELSE IF procs[q].pc = "started"
              THEN [procs[q] EXCEPT !.raced = TRUE]
              ELSE procs[q]]
    /\ UNCHANGED <<in_memory, clock, mem, file, result, max_issued, last_pass,
                   last_call, backend, facade>>

\* Line 311: run_cmd calls invoice (lines 109-121) on the process's own
\* DaemonState; write_state replaces the file by that copy.
proc_invoice(p) ==
    /\ procs[p].pc = "started"
    /\ LET st == procs[p].st
           i == new_invoice(st, procs[p].label, procs[p].msatoshi,
                            procs[p].expiry)
           st2 == [st EXCEPT !.invoices = Append(@, i)]
       IN IF LabelTaken(st, procs[p].label)
          THEN /\ procs' = [procs EXCEPT ![p].pc = "done",
                                         ![p].outcome = "SystemExit"]
               /\ file' = file
          ELSE /\ Len(st.invoices) < MaxInvoices
               /\ procs' = [procs EXCEPT ![p].pc = "done",
                                         ![p].outcome = "value",
                                         ![p].st = st2]
               /\ file' = write_state(st2)
    /\ UNCHANGED <<in_memory, clock, mem, result, max_issued, last_pass,
                   last_call, backend, facade>>

\* The process has ended; the next run of the program can start.
proc_exit(p) ==
    /\ procs[p].pc = "done"
    /\ procs' = [procs EXCEPT ![p] = Idle]
    /\ UNCHANGED <<in_memory, clock, mem, file, result, max_issued, last_pass,
                   last_call, backend, facade>>

InitRace ==
    /\ in_memory = FALSE
    /\ clock = 0
    /\ mem = empty_state
    /\ file = <<>>
    /\ result = ReturnedNone
    /\ max_issued = 0
    /\ last_pass = None
    /\ last_call = None
    /\ procs = [p \in RaceProcs |-> Idle]
    /\ backend = ""
    /\ facade = None

NextRace ==
    \/ \E p \in RaceProcs, l \in Labels, m \in Msatoshis, e \in Expiries :
          proc_start(p, l, m, e)
    \/ \E p \in RaceProcs : proc_invoice(p)
    \/ \E p \in RaceProcs : proc_exit(p)
    \/ /\ Tick
       /\ UNCHANGED <<last_call, others>>

SpecRace == InitRace /\ [][NextRace]_vars

\* ---- the facades of src/daemon.py -------------------------------------------
\* backend is "Direct" for a MemMockDaemon punched with a MockDaemon(True),
\* "Subprocess" for a CliMockDaemon whose settings.lightning_rpc is the path
\* of mock-c-lightning.py, and "Real" for a RealDaemon.  A facade method
\* returns the pair (result, error) or leaves by an exception; result is
\* "none" for None, "output" for a command's output and "error_object" for
\* {"code": -1, "message": m}; error is "" for None, "stderr" for the text of
\* the subprocess's stderr and "exception" for RealDaemon's messages.
FacadeReturned(method, res, err) ==
    <<[method |-> method, outcome |-> "return", result |-> res, error |-> err]>>

FacadeRaised(method, e) ==
    <<[method |-> method, outcome |-> e, result |-> "", error |-> ""]>>

\* The arguments of the autocleaninvoice command both mock facades send.
FacadeCycleSeconds == 60
FacadeExpiredBy == 10

\* MemMockDaemon, lines 149-186: run_cmd is called in the caller's process, an
\* exception of the command passes through the facade, and the command's
\* return value r is handed back with error None.  get_c_lightning_invoices
\* subscripts the list that listinvoices returns with 'invoices' (line 160).
MemMockDaemon_call(method, r) ==
    IF r.outcome \notin {"return", "value"}
    THEN FacadeRaised(method, r.outcome)
    ELSE IF method = "get_c_lightning_invoices"
    THEN FacadeRaised(method, "TypeError")
    ELSE FacadeReturned(method,
                        IF r.error # "" THEN "error_object"
                        ELSE IF r.outcome = "value" THEN "output"
                        ELSE "none",
                        "")

\* CliMockDaemon, lines 72-135, over __main__ (lines 309-315): a command that
\* leaves by an exception ends the subprocess with a nonzero exit code and
\* the facade returns (None, stderr); otherwise the exit code is 0, whatever
\* the command returned, and the facade returns the parsed output for
\* invoice and (None, None) for the others.  get_c_lightning_invoices
\* subscripts the parsed JSON array with 'invoices' (line 93).
CliMockDaemon_call(method, r) ==
    IF r.outcome \notin {"return", "value"}
    THEN FacadeReturned(method, "none", "stderr")
    ELSE IF method = "invoice_c_lightning"
    THEN FacadeReturned(method, "output", "")
    ELSE IF method = "get_c_lightning_invoices"
    THEN FacadeRaised(method, "TypeError")
    ELSE FacadeReturned(method, "none", "")

MockCall(method, r) ==
    IF backend = "Direct"
    THEN MemMockDaemon_call(method, r)
    ELSE CliMockDaemon_call(method, r)

\* The methods that class RealDaemon has, its own (lines 199-225); the
\* methods it inherits from Daemon are not facade operations.
RealDaemonMethods == {"invoice_c_lightning", "get_c_lightning_invoices",
                      "delete"}

\* A call of a facade method on a RealDaemon: the three methods it has forward
\* to the real node's RPC client and return its result, or the message of
\* the exception they caught; any other name is not an attribute of the
\* object.  The mock node is not involved.
RealDaemon_call(method) ==
    /\ IF method \in RealDaemonMethods
       THEN \E ok \in BOOLEAN :
               facade' = IF ok
                         THEN FacadeReturned(method, "output", "")
                         ELSE FacadeReturned(method, "none", "exception")
       ELSE facade' = FacadeRaised(method, "AttributeError")
    /\ UNCHANGED <<in_memory, clock, mem, file, result, max_issued, last_pass>>

\* run_cmd with a subcommand that the parser does not know (line 300):
\* parser.error prints the usage to stderr and exits with code 2.
run_cmd_invalid ==
    /\ result' = Raised("SystemExit")
    /\ UNCHANGED <<in_memory, clock, max_issued, last_pass>>
    /\ mem' = StartState
    /\ file' = file

Daemon_invoice_c_lightning(label, msatoshi, expiry) ==
    /\ IF backend = "Real"
       THEN RealDaemon_call("invoice_c_lightning")
       ELSE /\ invoice(label, msatoshi, expiry)
            /\ facade' = MockCall("invoice_c_lightning", result')
    /\ UNCHANGED <<last_call, procs, backend>>

Daemon_get_c_lightning_invoices ==
    /\ IF backend = "Real"
       THEN RealDaemon_call("get_c_lightning_invoices")
       ELSE /\ listinvoices
            /\ facade' = MockCall("get_c_lightning_invoices", result')
    /\ UNCHANGED <<last_call, procs, backend>>

Daemon_reset ==
    /\ IF backend = "Real"
       THEN RealDaemon_call("reset")
       ELSE /\ reset
            /\ facade' = MockCall("reset", result')
    /\ UNCHANGED <<last_call, procs, backend>>

Daemon_autoclean ==
    /\ IF backend = "Real"
       THEN RealDaemon_call("autoclean")
       ELSE /\ autocleaninvoice(FacadeCycleSeconds, FacadeExpiredBy)
            /\ facade' = MockCall("autoclean", result')
    /\ UNCHANGED <<last_call, procs, backend>>

Daemon_advance_time(seconds) ==
    /\ IF backend = "Real"
       THEN RealDaemon_call("advance_time")
       ELSE /\ advancetime(seconds)
            /\ facade' = MockCall("advance_time", result')
    /\ UNCHANGED <<last_call, procs, backend>>

Daemon_mark_paid(label) ==
    /\ IF backend = "Real"
       THEN RealDaemon_call("mark_paid")
       ELSE /\ markpaid(label)
            /\ facade' = MockCall("mark_paid", result')
    /\ UNCHANGED <<last_call, procs, backend>>

\* MemMockDaemon.delete sends delinvoice with the label and the state (line
\* 184); CliMockDaemon.delete sends the subcommand 'delete' with the label
\* only (line 131).
Daemon_delete(label, state) ==
    /\ IF backend = "Real"
       THEN RealDaemon_call("delete")
       ELSE /\ IF backend = "Direct"
               THEN delinvoice(label, state)
               ELSE run_cmd_invalid
            /\ facade' = MockCall("delete", result')
    /\ UNCHANGED <<last_call, procs, backend>>

InitFacade ==
    /\ backend \in {"Direct", "Subprocess", "Real"}
    /\ in_memory = (backend = "Direct")
    /\ clock = 0
    /\ mem = empty_state
    /\ file = <<>>
    /\ result = ReturnedNone
    /\ max_issued = 0
    /\ last_pass = None
    /\ last_call = None
    /\ procs = <<>>
    /\ facade = None

NextFacade ==
    \/ \E l \in Labels, m \in Msatoshis, e \in Expiries :
          Daemon_invoice_c_lightning(l, m, e)
    \/ Daemon_get_c_lightning_invoices
    \/ Daemon_reset
    \/ Daemon_autoclean
    \/ \E s \in AdvanceSeconds : Daemon_advance_time(s)
    \/ \E l \in Labels : Daemon_mark_paid(l)
    \/ \E l \in Labels, s \in Statuses : Daemon_delete(l, s)
    \/ /\ Tick
       /\ UNCHANGED <<last_call, others>>

SpecFacade == InitFacade /\ [][NextFacade]_vars

\* ---- properties -----------------------------------------------------------
\* The invoice of invs that carries the label (labels are unique, C3).
Labelled(invs, label) == invs[CHOOSE k \in DOMAIN invs : invs[k].label = label]

HasPaid(invs) == \E k \in DOMAIN invs : invs[k].status = "paid"

\* C1: every pay_index that markpaid assigns is strictly greater than every
\* pay_index assigned before it (since the last reset), also after a paid
\* invoice has been deleted.
C1_PayIndexStrictlyIncreasing ==
    [][\A l \in Labels :
          (markpaid(l) /\ l \in LabelsOf(StartState.invoices))
          => Labelled(mem'.invoices, l).pay_index > max_issued]_vars

\* C2: in every step the status of every invoice stays the same or goes from
\* unpaid to paid or from unpaid to expired; paid and expired are final.
C2_StatusMonotone ==
    [][\A l \in LabelsOf(StartState.invoices) \cap LabelsOf(mem'.invoices) :
          LET before == Labelled(StartState.invoices, l).status
              after == Labelled(mem'.invoices, l).status
          IN \/ after = before
             \/ before = "unpaid" /\ after \in {"paid", "expired"}]_vars

NoDuplicateLabel(invs) ==
    \A j, k \in DOMAIN invs : invs[j].label = invs[k].label => j = k

\* C3: in every reachable state no two invoices of the collection, in the
\* daemon's DaemonState and in the state file, have the same label.
C3_LabelsUnique ==
    /\ NoDuplicateLabel(mem.invoices)
    /\ NoDuplicateLabel(read_state(file).invoices)

\* Two invoices are stored and a listinvoices call has run an autoclean pass
\* over them.
C3_Witness ==
    /\ Len(mem.invoices) = 2
    /\ result.outcome = "NameError"

\* C4: invoice with a label that is already stored fails with SystemExit and
\* leaves the DaemonState and the state file as they were before the call.
C4_DuplicateLabelRejected ==
    [][\A l \in Labels, m \in Msatoshis, e \in Expiries :
          (invoice(l, m, e) /\ l \in LabelsOf(StartState.invoices))
          => /\ result'.outcome = "SystemExit"
             /\ mem' = StartState
             /\ file' = file]_vars

\* A duplicate invoice call has just failed in persistent mode, with a state
\* file that holds the invoice.
C4_Witness ==
    /\ result.outcome = "SystemExit"
    /\ file # <<>>
    /\ Len(read_state(file).invoices) >= 1

\* C5: after a listinvoices call at virtual time now, an invoice that was never
\* marked paid is unpaid when now < T+E and expired when now >= T+E, where
\* T+E is its expires_at.
C5_ExpiredFromDeadline ==
    [][listinvoices =>
          \A l \in LabelsOf(StartState.invoices) :
             LET i == Labelled(StartState.invoices, l)
                 now == get_time(StartState)
             IN (i.status # "paid" /\ l \in LabelsOf(mem'.invoices))
                => Labelled(mem'.invoices, l).status =
                      IF now < i.expires_at THEN "unpaid" ELSE "expired"]_vars

\* C7: a listinvoices call at virtual time now runs an autoclean pass only if
\* the cycle is not 0 and at least autoclean_cycle_seconds have passed since
\* the last pass and since the last autocleaninvoice call.
C7_PassesRateLimited ==
    [][listinvoices =>
          LET st == StartState
              now == get_time(st)
              st1 == [st EXCEPT !.invoices = expire_unpaid(@, now)]
          IN autoclean(st1, now).pass
             => /\ st.autoclean_cycle_seconds # 0
                /\ last_pass # None
                /\ now - last_pass[1] >= st.autoclean_cycle_seconds]_vars

\* C8: listinvoices never fails: no reachable state is left by a listinvoices
\* call that ended with an exception.
C8_ListNeverFails ==
    /\ result.outcome # "NameError"
    /\ result.outcome # "TypeError"

\* C9: delinvoice returns the "Unknown invoice" error for an absent label and
\* the "Wrong status" error when the status differs, leaving DaemonState and
\* file unchanged; otherwise it removes the one invoice with the label and
\* keeps all the others in their order.
C9_DelinvoiceContract ==
    [][\A l \in Labels, s \in Statuses :
          delinvoice(l, s) =>
             LET st == StartState
                 invs == st.invoices
             IN IF l \notin LabelsOf(invs)
                THEN /\ result' = ReturnedError("Unknown invoice")
                     /\ mem' = st
                     /\ file' = file
                ELSE IF Labelled(invs, l).status # s
                THEN /\ result' = ReturnedError("Wrong status")
                     /\ mem' = st
                     /\ file' = file
                ELSE /\ result' = ReturnedNone
                     /\ \E k \in DOMAIN invs :
                           /\ invs[k].label = l
                           /\ mem'.invoices = SubSeq(invs, 1, k - 1)
                                              \o SubSeq(invs, k + 1, Len(invs))
                     /\ mem' = [st EXCEPT !.invoices = mem'.invoices]
                     /\ file' = IF in_memory THEN file ELSE <<mem'>>]_vars

\* A delinvoice call has just been refused with "Wrong status" while a paid
\* invoice is stored.
C9_Witness ==
    /\ result = ReturnedError("Wrong status")
    /\ HasPaid(mem.invoices)

\* C10: markpaid on an unpaid invoice, with no paid invoice stored, sets its
\* status to paid, its pay_index to 1 and its msatoshi_received to
\* msatoshi + 33, and leaves the other invoices unchanged.
C10_MarkpaidFirst ==
    [][\A l \in Labels :
          (/\ markpaid(l)
           /\ l \in LabelsOf(StartState.invoices)
           /\ Labelled(StartState.invoices, l).status = "unpaid"
           /\ ~HasPaid(StartState.invoices))
          => LET p == Labelled(mem'.invoices, l)
             IN /\ p.status = "paid"
                /\ p.pay_index = 1
                /\ "msatoshi_received" \in DOMAIN p
                /\ p.msatoshi_received = p.msatoshi + 33
                /\ \A k \in DOMAIN StartState.invoices :
                      StartState.invoices[k].label # l
                      => mem'.invoices[k] = StartState.invoices[k]]_vars

\* The autoclean fields and the invoices of a DaemonState.
Rest(st) == [st EXCEPT !.time_offset = 0]

\* C11: advancetime(s) directly followed by advancetime(-s) leaves time_offset,
\* and with it the virtual clock reading at a fixed real time, as it was
\* before the two calls, in the daemon's DaemonState and in the state file;
\* no advancetime call changes the invoices or the autoclean fields.
C11_AdvanceRoundTrip ==
    [][\A s \in AdvanceBoth :
          advancetime(s) =>
             /\ Rest(mem') = Rest(StartState)
             /\ (/\ last_call # None
                 /\ last_call[1].cmd = "advancetime"
                 /\ last_call[1].seconds = 0 - s)
                => /\ mem'.time_offset = last_call[1].time_offset
                   /\ clock + mem'.time_offset
                         = clock + last_call[1].time_offset
                   /\ ~in_memory
                         => read_state(file').time_offset
                               = last_call[1].time_offset]_vars

\* advancetime(s) and then advancetime(-s), with s # 0, have just run on a
\* daemon that stores an invoice and has autoclean configured, and the
\* time_offset is back to what it was.
C11_Witness ==
    /\ last_call # None
    /\ last_call[1].cmd = "advancetime"
    /\ last_call[1].seconds # 0
    /\ last_call[1].previous = <<0 - last_call[1].seconds>>
    /\ mem.time_offset = last_call[1].time_offset + last_call[1].seconds
    /\ mem.invoices # <<>>
    /\ mem.autoclean_cycle_seconds # 0
    /\ read_state(file) = mem

\* The reading of the virtual clock: _get_time on the state the next command
\* starts from.
VirtualTime == get_time(StartState)

\* C12: no step other than a reset call makes the virtual clock reading
\* smaller than it was: not invoice, listinvoices, autocleaninvoice,
\* delinvoice, markpaid or advancetime, and not the passing of real time.
C12_VirtualTimeNonDecreasing ==
    [][reset \/ VirtualTime' >= VirtualTime]_vars

\* C12 as amended: no step other than a reset call or an advancetime call
\* with negative seconds makes the virtual clock reading smaller than it was.
C12_NonDecreasingButNegativeAdvance ==
    [][\/ reset
       \/ \E s \in AdvanceBoth : s < 0 /\ advancetime(s)
       \/ VirtualTime' >= VirtualTime]_vars

\* An advancetime call with positive seconds has just moved the virtual clock
\* of a daemon that stores an invoice forward.
C12_Witness ==
    /\ last_call # None
    /\ last_call[1].cmd = "advancetime"
    /\ last_call[1].seconds > 0
    /\ last_call[1].previous = None
    /\ StartState.time_offset = last_call[1].time_offset + last_call[1].seconds
    /\ StartState.invoices # <<>>

\* C13: reset leaves the DaemonState at the empty baseline: time_offset 0,
\* autoclean_cycle_seconds 0, autoclean_last_clean unset, autoclean_expired_by
\* 86400 and no invoices; in persistent mode the state file holds the same
\* document after the call, and in in-memory mode the file is not written.
C13_ResetToBaseline ==
    [][reset =>
          /\ DOMAIN mem' = {"time_offset", "autoclean_cycle_seconds",
                            "autoclean_last_clean", "autoclean_expired_by",
                            "invoices"}
          /\ mem'.time_offset = 0
          /\ mem'.autoclean_cycle_seconds = 0
          /\ mem'.autoclean_last_clean = None
          /\ mem'.autoclean_expired_by = 86400
          /\ mem'.invoices = <<>>
          /\ file' = IF in_memory THEN file ELSE <<mem'>>]_vars

\* reset has just run in persistent mode from a state that was not the
\* baseline, and the daemon and the file hold the baseline.
C13_Witness ==
    /\ last_call # None
    /\ last_call[1].cmd = "reset"
    /\ ~last_call[1].baseline
    /\ ~in_memory
    /\ mem = empty_state
    /\ file = <<empty_state>>

C17_PassRetains ==
    [][listinvoices =>
          LET st == StartState
              now == get_time(st)
              st1 == [st EXCEPT !.invoices = expire_unpaid(@, now)]
              Retained(i) ==
                  \/ i.status # "expired"
                  \/ now - i.expiry_time < st1.autoclean_expired_by
          IN PassDue(st1, now)
             => /\ mem'.invoices = SelectSeq(st1.invoices, Retained)
                /\ mem'.autoclean_last_clean = <<now>>]_vars

\* C19: in persistent mode, after every operation, however it ended, the state
\* file holds the DaemonState the operation left in memory; in in-memory mode
\* the file is never written.
C19_FileHoldsState ==
    IF in_memory THEN file = <<>> ELSE read_state(file) = mem

SameTimestamps(invs) ==
    \A k \in DOMAIN invs :
       /\ invs[k].expires_at = invs[k].expiry_time
       /\ invs[k].status = "paid"
             => invs[k].paid_at = invs[k].paid_timestamp

\* C20: in every reachable state every invoice has expires_at = expiry_time
\* and every paid invoice has paid_at = paid_timestamp, in the daemon's
\* DaemonState and in the state file.
C20_DuplicateFieldsAgree ==
    /\ SameTimestamps(mem.invoices)
    /\ SameTimestamps(read_state(file).invoices)

Done(p) == procs[p].pc = "done" /\ procs[p].outcome = "value"

\* C16: when two invoice processes that share the state file have both
\* completed successfully and ran one after the other, the state file holds
\* the invoices of both; an invoice is missing only when the two ran at the
\* same time (C16_Witness is that interleaving).
C16_SequentialKeepsBoth ==
    \A p, q \in RaceProcs :
       (/\ p # q
        /\ Done(p) /\ ~procs[p].raced
        /\ Done(q) /\ ~procs[q].raced)
       => /\ procs[p].label # procs[q].label
          /\ {procs[p].label, procs[q].label}
                \subseteq LabelsOf(read_state(file).invoices)

\* Two processes have run at the same time, both completed successfully with
\* different labels, and the state file lacks the invoice of one of them.
C16_Witness ==
    \E p, q \in RaceProcs :
       /\ p # q
       /\ Done(p) /\ procs[p].raced
       /\ Done(q) /\ procs[q].raced
       /\ procs[p].label # procs[q].label
       /\ procs[p].label \notin LabelsOf(read_state(file).invoices)
       /\ procs[q].label \in LabelsOf(read_state(file).invoices)

\* The mock node reports an error: the command returned an error object or
\* left by an exception.
NodeReportsError(r) == r.error # "" \/ r.outcome \notin {"return", "value"}

\* What C14 asks of a call f of a facade method that ran a command with
\* result r on the mock node: the facade returns a pair, with an error exactly
\* when the node reported one, and the Direct and the Subprocess facade hand
\* back the same pair for that result.
SamePair(f, r) ==
    /\ f.outcome = "return"
    /\ (f.error # "") <=> NodeReportsError(r)
    /\ MemMockDaemon_call(f.method, r) = CliMockDaemon_call(f.method, r)

\* C14: from the same DaemonState, every facade operation gives the same
\* (result, error) pair on the Direct and on the Subprocess backend, with an
\* error exactly when the mock node reports one, and leaves the same
\* DaemonState; delete of a stored invoice with the matching status succeeds
\* and removes it on both.
C14_BackendsAgree ==
    [][(backend \in {"Direct", "Subprocess"}) =>
          /\ \A l \in Labels, m \in Msatoshis, e \in Expiries :
                Daemon_invoice_c_lightning(l, m, e)
                => SamePair(facade'[1], result')
          /\ Daemon_get_c_lightning_invoices => SamePair(facade'[1], result')
          /\ Daemon_reset => SamePair(facade'[1], result')
          /\ Daemon_autoclean => SamePair(facade'[1], result')
          /\ \A s \in AdvanceSeconds :
                Daemon_advance_time(s) => SamePair(facade'[1], result')
          /\ \A l \in Labels :
                Daemon_mark_paid(l) => SamePair(facade'[1], result')
          /\ \A l \in Labels, s \in Statuses :
                Daemon_delete(l, s)
                => IF /\ l \in LabelsOf(StartState.invoices)
                      /\ Labelled(StartState.invoices, l).status = s
                   THEN /\ facade'[1].outcome = "return"
                        /\ facade'[1].error = ""
                        /\ l \notin LabelsOf(mem'.invoices)
                   ELSE /\ facade'[1].outcome = "return"
                        /\ facade'[1].error # ""
                        /\ mem' = StartState]_vars

\* C15: on the RealDaemon backend a call of autoclean or advance_time returns
\* a pair whose error says that the operation is unsupported on this backend;
\* it does not leave by an exception and does not return success.
C15_UnsupportedOnReal ==
    (/\ backend = "Real"
     /\ facade # None
     /\ facade[1].method \in {"autoclean", "advance_time"})
    => /\ facade[1].outcome = "return"
       /\ facade[1].result = "none"
       /\ facade[1].error = "unsupported"

\* Whether a DaemonState with a nonzero autoclean cycle has a timestamp in
\* autoclean_last_clean.
LastCleanSet(st) ==
    st.autoclean_cycle_seconds # 0 => st.autoclean_last_clean # None

\* C21: in every reachable state a nonzero autoclean_cycle_seconds comes with
\* a set autoclean_last_clean, in the state the next command starts from and
\* in the state the last command left in memory, so that no command ends in
\* the TypeError of `now - None` (line 136); autoclean_last_clean is unset
\* only while the cycle is 0.
C21_LastCleanSetWhileEnabled ==
    /\ LastCleanSet(StartState)
    /\ LastCleanSet(mem)
    /\ result.outcome # "TypeError"

\* An enabled autoclean whose elapsed time was computed and found to be at
\* least one cycle: listinvoices went past line 137 into the pass, which is
\* the only place the NameError comes from.
C21_Witness ==
    /\ StartState.autoclean_cycle_seconds # 0
    /\ StartState.autoclean_last_clean # None
    /\ StartState.invoices # <<>>
    /\ result.outcome = "NameError"
    /\ get_time(StartState) - StartState.autoclean_last_clean[1]
           >= StartState.autoclean_cycle_seconds

====
